---- MODULE Spec2Model ----
(***************************************************************************)
(* Model of the TradingView client: the pagination engine getCandles       *)
(* (src/src/candles.ts) running on the connection handle returned by       *)
(* connect (src/unnamed/part_006, connection.ts).                          *)
(*                                                                         *)
(* A call of getCandles is identified by a number f; its chart session     *)
(* identifier (generateChartSession, 12 random characters) is modelled as  *)
(* f itself, so that two calls never share an identifier.                  *)
(*                                                                         *)
(* The optional numeric parameters amount, from and to are only ever read  *)
(* behind a JavaScript truthiness test (`amount ?`, `from &&`, `if (to)`), *)
(* so undefined and 0 are indistinguishable to the code: the value 0       *)
(* stands for both.                                                        *)
(*                                                                         *)
(* Chunks and payloads are strings, decoded by parseMessage as the code    *)
(* decodes them; the value JSON.parse returns is represented by its text.  *)
(* The listener of ws 'message' is modelled one round of its loop and one  *)
(* handler invocation at a time, so that subscribers which subscribe,      *)
(* unsubscribe or throw while an event is dispatched can be followed.      *)
(***************************************************************************)
EXTENDS Integers, Sequences, FiniteSets, TLC

\* ---------------------------------------------------------------- bounds
NumFetches == 2
MaxTs == 2
MaxBatch == 2
MaxFrames == 3

MaxSockets == 3
MaxSends == 2
MaxAttempts == 8

\* ------------------------------------------------------ program constants
MAX_BATCH_SIZE == 10000
StallLimit == 3
AutoReconnect == TRUE
SENTINEL == "unauthorized_user_token"
BaseDelay == 5000
MaxDelay == 60000

\* delays are counted in units of 1/64 ms: 5000 * 1.5^n is a whole number of
\* them as long as it is below the cap
DelayUnit == 64

Fetches == 1..NumFetches

\* RawCandle {i, v: [timestamp, open, high, low, close, volume]}: t is v[0],
\* v stands for the remaining values v[1..5], which the code never inspects.
Values == {"a", "b"}
RawCandles(ts, vs) == [t : ts, v : vs]

VARIABLES
    args,          \* per call: [amount, from, to] (0 = undefined or 0)
    rawCandles,    \* per call: the accumulator
    resolved,      \* per call: the resolved flag
    requestCount,  \* per call
    lastLength,    \* per call
    stallCount,    \* per call
    timeout,       \* per call: the 120 s timer: "none", "armed", "cleared", "fired"
    promise,       \* per call: "none" (not called), "pending", "fulfilled", "rejected"
    finalCandles,  \* per call: the value the promise was resolved with
    subscribers,   \* the connection's Set<Subscriber>, in insertion order
    readyState,    \* ws.readyState
    wire,          \* commands transmitted by ws.send, in order
    crashed,       \* an exception left a subscriber and reached the event loop
    lens,          \* history, per call: currentLength at each completion handled
    latest,        \* history, per call: timestamp -> value of the last bar received
    dup,           \* history, per call: some timestamp was received twice
    hard,          \* history, per call: its handler was handed a critical_error
    manuallyClosed,    \* connect's flag: close() was called
    connected,         \* connect's flag: the session is established
    reconnectAttempts, \* connect's counter
    reconnectTimers,   \* the pending setTimeout calls of the 'close' handler: their delays
    created,           \* the sockets created so far: ws is the last one (0: ws is null)
    orphans,           \* sockets that were not closed when ws was assigned a new one
    token,             \* connect's token
    sessionId,         \* options.sessionId is given
    autoReconnect,     \* options.autoReconnect
    lookup,            \* history: how the last getAuthToken ended
    lookups,           \* calls of initConnection that await getAuthToken
    connectPromise,    \* the promise connect returned: "pending", "fulfilled",
                       \* "error" (rejected by a transport error), "timeout"
    resolveConnection, \* connect's resolveConnection is not null
    connectTimer,      \* the 30 s setTimeout of connect: "armed", "fired"
    closeCalls,        \* calls of close(): the socket each waits on, and whether it resolved
    failed,            \* history: transport closes since the last 'open' (or since connect)
    sendLog,           \* history: per send call of the application, whether the socket was open
    frames,        \* the payload texts of the frames the service has sent, in order
    message,       \* the chunk handed to parseMessage
    payloads,      \* the MessagePayload[] parseMessage returned for it
    pos,           \* the payload the for-loop of ws.on('message') is at (0: not running)
    iteration,     \* subscribers.forEach in progress: the handlers still to visit
    trace,         \* history: handler invocations and heartbeat replies, in order
    multiple       \* the call of getCandlesMultiple: its arguments, the symbol its
                   \* loop is at, and its results map

lifeVars == <<created, orphans, token, sessionId, autoReconnect, lookup, lookups,
              connectPromise, resolveConnection, connectTimer, closeCalls, failed,
              sendLog>>

connVars == <<manuallyClosed, connected, reconnectAttempts, reconnectTimers, lifeVars>>

loopVars == <<frames, message, payloads, pos, iteration, trace>>

vars == <<args, rawCandles, resolved, requestCount, lastLength, stallCount,
          timeout, promise, finalCandles, subscribers, readyState, wire,
          crashed, lens, latest, dup, hard, connVars, loopVars, multiple>>

\* ------------------------------------------------------------ pure helpers

\* JavaScript truthiness of an optional number.
Truthy(x) == x # 0

Min(a, b) == IF a < b THEN a ELSE b

\* Map.prototype.set on an insertion-ordered map keyed by c.v[0].
MapSet(m, c) ==
    IF \E i \in 1..Len(m) : m[i].t = c.t
    THEN [i \in 1..Len(m) |-> IF m[i].t = c.t THEN c ELSE m[i]]
    ELSE Append(m, c)

\* rawCandles.forEach(c => uniqueCandles.set(c.v[0], c)); Array.from(values())
RECURSIVE UniqueCandles(_)
UniqueCandles(s) ==
    IF s = <<>> THEN <<>>
    ELSE MapSet(UniqueCandles(SubSeq(s, 1, Len(s) - 1)), s[Len(s)])

\* the comparator (a, b) => a.v[0] - b.v[0]
ByTimestamp(a, b) == a.t < b.t

\* mutant: the sort is left out
SortCandlesUnsorted(s) == s

SortCandles(s) == SortSeq(s, ByTimestamp)

DedupAndSort(s) == SortCandles(UniqueCandles(s))

\* the merge of a new batch into the accumulator
Merge(acc, newCandles) ==
    IF Len(acc) = 0 THEN newCandles ELSE newCandles \o acc

\* RawCandle -> Candle
ToCandle(c) == [timestamp |-> c.t, value |-> c.v]

MapCandles(s) == [i \in 1..Len(s) |-> ToCandle(s[i])]

FilterFrom(s, from) ==
    IF Truthy(from) THEN SelectSeq(s, LAMBDA c : c.timestamp >= from) ELSE s

\* mutant: the upper bound is not applied
FilterToOff(s, to) == s

FilterTo(s, to) ==
    IF Truthy(to) THEN SelectSeq(s, LAMBDA c : c.timestamp <= to) ELSE s

\* mutant: slice(0, amount) instead of slice(-amount)
LimitAmountOldest(s, amount, from) ==
    IF Truthy(amount) /\ ~Truthy(from) /\ Len(s) > amount
    THEN SubSeq(s, 1, amount)
    ELSE s

\* finalCandles.slice(-amount) when amount is the main criterion
LimitAmount(s, amount, from) ==
    IF Truthy(amount) /\ ~Truthy(from) /\ Len(s) > amount
    THEN SubSeq(s, Len(s) - amount + 1, Len(s))
    ELSE s

Finalize(rc, a) ==
    LimitAmount(FilterTo(FilterFrom(MapCandles(rc), a.from), a.to), a.amount, a.from)

\* mutants: the cutoff one completion late, one completion early
StallReachedLate(stall) == stall >= StallLimit + 1

StallReachedEarly(stall) == stall >= StallLimit - 1

StallReached(stall) == stall >= StallLimit

\* mutant: the counter is never reset
NextStallSticky(reqCount, currentLength, last, stall) ==
    IF reqCount > 0 /\ currentLength = last THEN stall + 1 ELSE stall

\* the stall counter after a completion event
NextStall(reqCount, currentLength, last, stall) ==
    IF reqCount > 0 /\ currentLength = last THEN stall + 1 ELSE 0

\* mutant: the amount criterion asks for more when exactly amount bars are held
NeedMoreInclusive(rc, a, stall) ==
    IF Truthy(a.from) /\ Len(rc) > 0 /\ rc[1].t > a.from
    THEN ~StallReached(stall)
    ELSE IF Truthy(a.amount) /\ Len(rc) <= a.amount
         THEN ~StallReached(stall)
         ELSE FALSE

NeedMore(rc, a, stall) ==
    IF Truthy(a.from) /\ Len(rc) > 0 /\ rc[1].t > a.from
    THEN ~StallReached(stall)
    ELSE IF Truthy(a.amount) /\ Len(rc) < a.amount
         THEN ~StallReached(stall)
         ELSE FALSE

RequestAmount(amount) ==
    IF Truthy(amount) THEN Min(amount, MAX_BATCH_SIZE) ELSE MAX_BATCH_SIZE

Cmd(name, sess, n) == [name |-> name, sess |-> sess, n |-> n]

\* mutant: the command carries the token connect started with
AuthCmdInitial(t) ==
    [name |-> "set_auth_token", sess |-> 0, n |-> 0, token |-> SENTINEL]

\* send('set_auth_token', [token])
AuthCmd(t) == [name |-> "set_auth_token", sess |-> 0, n |-> 0, token |-> t]

\* mutant: the state of the socket is not checked
SendUnchecked(w, cmds) == w \o cmds

\* connection.send: transmits only while the socket is open
Send(w, cmds) == IF readyState = "OPEN" THEN w \o cmds ELSE w

\* ------------------------------------------------------------------- codec

\* A chunk is a JavaScript string. The service frames every payload as
\* ~m~<length>~m~<payload>; formatMessage frames the client's commands alike.
Envelope(text) == "~m~" \o ToString(Len(text)) \o "~m~" \o text

RECURSIVE Encode(_)
Encode(texts) ==
    IF texts = <<>> THEN "" ELSE Envelope(Head(texts)) \o Encode(Tail(texts))

Digits == {"0", "1", "2", "3", "4", "5", "6", "7", "8", "9"}

\* text occurs in s at index i
StartsWith(s, i, text) ==
    /\ i + Len(text) - 1 <= Len(s)
    /\ SubSeq(s, i, i + Len(text) - 1) = text

\* \d+ read from index i: the index that follows the digits
RECURSIVE DigitsEnd(_, _)
DigitsEnd(s, i) ==
    IF i <= Len(s) /\ SubSeq(s, i, i) \in Digits THEN DigitsEnd(s, i + 1) ELSE i

\* /~m~\d+~m~/ tried at index i: the index that follows the match, 0 when
\* the expression does not match there
MatchEnd(s, i) ==
    IF StartsWith(s, i, "~m~")
    THEN LET j == DigitsEnd(s, i + 3)
         IN  IF j > i + 3 /\ StartsWith(s, j, "~m~") THEN j + 3 ELSE 0
    ELSE 0

\* String.prototype.split with that expression: the texts between the
\* matches, the one before the first match and the one after the last
\* included; start is where the current text begins, i where the scan is
RECURSIVE SplitFrom(_, _, _)
SplitFrom(s, start, i) ==
    IF i > Len(s) THEN <<SubSeq(s, start, Len(s))>>
    ELSE LET j == MatchEnd(s, i)
         IN  IF j > 0 THEN <<SubSeq(s, start, i - 1)>> \o SplitFrom(s, j, j)
             ELSE SplitFrom(s, start, i + 1)

Split(s) == SplitFrom(s, 1, 1)

\* JSON.parse, on the texts the bounded chunks can hand to it: these are the
\* ones it accepts, every other one makes it throw. A parsed value is
\* represented by its text.
JsonTexts ==
    {"{\"session_id\":\"s\"}", "{\"m\":\"a\"}", "{\"m\":\"b\"}",
     "{\"m\":\"~m~1~m~\"}", "{}"}

\* parsed['session_id'] ("" for undefined)
SessionId(text) == IF text = "{\"session_id\":\"s\"}" THEN "s" ELSE ""

\* the try blocks of parseMessage: a session when the parsed value has a
\* session_id, an event otherwise, an event with data {} when JSON.parse throws
ParseJson(text) ==
    IF text \in JsonTexts
    THEN [type |-> IF SessionId(text) # "" THEN "session" ELSE "event",
          data |-> text]
    ELSE [type |-> "event", data |-> "{}"]

\* the body of the map callback of parseMessage
ParseSegment(event) ==
    IF StartsWith(event, 1, "~h~")
    THEN [type |-> "ping", data |-> Envelope(event)]
    ELSE IF StartsWith(event, 1, "~j~")
    THEN ParseJson(SubSeq(event, 4, Len(event)))
    ELSE ParseJson(event)

MapSegments(segments) == [i \in 1..Len(segments) |-> ParseSegment(segments[i])]

\* mutant: the first segment JSON.parse rejects ends the decoding
RECURSIVE MapUntilFailure(_)
MapUntilFailure(segments) ==
    IF segments = <<>> THEN <<>>
    ELSE LET event == Head(segments)
             text == IF StartsWith(event, 1, "~j~")
                     THEN SubSeq(event, 4, Len(event)) ELSE event
         IN  IF ~StartsWith(event, 1, "~h~") /\ text \notin JsonTexts
             THEN <<ParseSegment(event)>>
             ELSE <<ParseSegment(event)>> \o MapUntilFailure(Tail(segments))

parseMessageAborting(msg) ==
    IF Len(msg) = 0 THEN <<>> ELSE MapUntilFailure(Tail(Split(msg)))

parseMessage(msg) ==
    IF Len(msg) = 0 THEN <<>> ELSE MapSegments(Tail(Split(msg)))

\* ------------------------------------------------------------------ events

\* An application event {name, params}: params[0] is the chart session the
\* service addresses it to, s is params[1].sds_1.s (has = FALSE: absent).
Batches(candles, maxLen) == UNION {[1..n -> candles] : n \in 0..maxLen}

PushEvents(sessions, batches) ==
    [name : {"timescale_update"}, sess : sessions, has : {TRUE}, s : batches]
    \cup [name : {"timescale_update"}, sess : sessions, has : {FALSE}, s : {<<>>}]

\* the events that end a batch
CompletionEvents(sessions) ==
    [name : {"series_completed", "symbol_error"},
     sess : sessions, has : {FALSE}, s : {<<>>}]

SignalEvents(sessions) ==
    CompletionEvents(sessions)
    \cup [name : {"critical_error"}, sess : sessions, has : {FALSE}, s : {<<>>}]

LastIndexOf(s, t) == CHOOSE i \in 1..Len(s) :
    s[i].t = t /\ \A j \in (i + 1)..Len(s) : s[j].t # t

\* history: the value last received for each timestamp
LatestAfter(l, s) ==
    [t \in DOMAIN l \cup {s[i].t : i \in 1..Len(s)} |->
        IF \E i \in 1..Len(s) : s[i].t = t THEN s[LastIndexOf(s, t)].v ELSE l[t]]

\* history: batch s brings a timestamp already received, or brings one twice
Repeats(l, s) ==
    \/ \E i \in 1..Len(s) : s[i].t \in DOMAIN l
    \/ \E i, j \in 1..Len(s) : i < j /\ s[i].t = s[j].t

\* ------------------------------------------------- the subscriber of a call

\* What the handler registered by call f does with event e: the new values of
\* the call's locals, the commands it passes to connection.send, whether it
\* unsubscribes, and whether it throws.
Untouched(f) ==
    [rawCandles |-> rawCandles[f], resolved |-> resolved[f],
     requestCount |-> requestCount[f], lastLength |-> lastLength[f],
     stallCount |-> stallCount[f], timeout |-> timeout[f],
     promise |-> promise[f], finalCandles |-> finalCandles[f],
     sends |-> <<>>, unsub |-> FALSE, throws |-> FALSE,
     lens |-> lens[f], latest |-> latest[f], dup |-> dup[f],
     hard |-> hard[f]]

\* mutant: a push asks for more data
OnTimescaleUpdateRequesting(f, e) ==
    IF e.has
    THEN [Untouched(f) EXCEPT !.rawCandles = Merge(rawCandles[f], e.s),
                              !.latest = LatestAfter(latest[f], e.s),
                              !.dup = dup[f] \/ Repeats(latest[f], e.s),
                              !.sends = <<Cmd("request_more_data", f, MAX_BATCH_SIZE)>>]
    ELSE Untouched(f)

OnTimescaleUpdate(f, e) ==
    IF e.has
    THEN [Untouched(f) EXCEPT !.rawCandles = Merge(rawCandles[f], e.s),
                              !.latest = LatestAfter(latest[f], e.s),
                              !.dup = dup[f] \/ Repeats(latest[f], e.s)]
    ELSE Untouched(f)

\* mutant: the finalization neither sets resolved nor clears the timer
OnCompletedUnflagged(f, e) ==
    LET rc == DedupAndSort(rawCandles[f])
        currentLength == Len(rc)
        stall == NextStall(requestCount[f], currentLength, lastLength[f], stallCount[f])
        needMore == NeedMore(rc, args[f], stall)
        base == [Untouched(f) EXCEPT !.rawCandles = rc,
                                     !.stallCount = stall,
                                     !.lastLength = currentLength,
                                     !.lens = Append(lens[f], currentLength)]
    IN  IF needMore
        THEN \* the log line reads oldestCandle.v[0]: a TypeError when the
             \* accumulator is empty, raised before connection.send
             IF currentLength = 0
             THEN [base EXCEPT !.requestCount = requestCount[f] + 1,
                               !.throws = TRUE]
             ELSE [base EXCEPT !.requestCount = requestCount[f] + 1,
                               !.sends = <<Cmd("request_more_data", f, MAX_BATCH_SIZE)>>]
        ELSE [base EXCEPT !.unsub = TRUE,
                          !.finalCandles = Finalize(rc, args[f]),
                          !.promise = IF promise[f] = "pending" THEN "fulfilled"
                                      ELSE promise[f]]

OnCompleted(f, e) ==
    LET rc == DedupAndSort(rawCandles[f])
        currentLength == Len(rc)
        stall == NextStall(requestCount[f], currentLength, lastLength[f], stallCount[f])
        needMore == NeedMore(rc, args[f], stall)
        base == [Untouched(f) EXCEPT !.rawCandles = rc,
                                     !.stallCount = stall,
                                     !.lastLength = currentLength,
                                     !.lens = Append(lens[f], currentLength)]
    IN  IF needMore
        THEN \* the log line reads oldestCandle.v[0]: a TypeError when the
             \* accumulator is empty, raised before connection.send
             IF currentLength = 0
             THEN [base EXCEPT !.requestCount = requestCount[f] + 1,
                               !.throws = TRUE]
             ELSE [base EXCEPT !.requestCount = requestCount[f] + 1,
                               !.sends = <<Cmd("request_more_data", f, MAX_BATCH_SIZE)>>]
        ELSE [base EXCEPT !.resolved = TRUE,
                          !.timeout = "cleared",
                          !.unsub = TRUE,
                          !.finalCandles = Finalize(rc, args[f]),
                          !.promise = IF promise[f] = "pending" THEN "fulfilled"
                                      ELSE promise[f]]

Handler(f, e) ==
    IF e.name = "timescale_update" THEN OnTimescaleUpdate(f, e)
    ELSE IF e.name \in {"series_completed", "symbol_error"} THEN OnCompleted(f, e)
    ELSE [Untouched(f) EXCEPT !.hard = hard[f] \/ e.name = "critical_error"]

\* subscribers.forEach(handler => handler(event)): handlers run in insertion
\* order; an exception leaving one ends the iteration.
Runs(f, e) ==
    \E i \in 1..Len(subscribers) :
        /\ subscribers[i] = f
        /\ \A j \in 1..(i - 1) : ~Handler(subscribers[j], e).throws

RECURSIVE SendsOf(_, _)
SendsOf(subs, e) ==
    IF subs = <<>> THEN <<>>
    ELSE LET h == Handler(Head(subs), e)
         IN  IF h.throws THEN h.sends ELSE h.sends \o SendsOf(Tail(subs), e)

After(f, e) == IF Runs(f, e) THEN Handler(f, e) ELSE Untouched(f)

\* ------------------------------------------------------------ message loop

\* Two subscribers that are not getCandles handlers.
Handlers == {1, 2}

Members(q) == {q[j] : j \in 1..Len(q)}

\* What a subscriber does with the registry, or by throwing, when invoked.
Behaviours ==
    [op : {"return", "throw"}, g : {0}]
    \cup [op : {"subscribe", "unsubscribe"}, g : Handlers]

\* subscribers.forEach: no iteration in progress
NoIteration ==
    [active |-> FALSE, k |-> 0, queue |-> <<>>, atStart |-> {}, added |-> {},
     removed |-> {}]

\* mutant: the loop takes the payloads last to first
LoopOrderReversed(n) == [i \in 1..n |-> n + 1 - i]

\* for (const payload of payloads): the index taken at each round
LoopOrder(n) == [i \in 1..n |-> i]

\* the place of payloads[i] among all the frames that have arrived
Arrival(i) == Len(frames) - Len(payloads) + i

\* the loop moves on to the next payload, or ends
Advance == IF pos = Len(payloads) THEN 0 ELSE pos + 1

Call(h, k, data) == [kind |-> "call", k |-> k, h |-> h, data |-> data]
Reply(k, data) == [kind |-> "reply", k |-> k, h |-> 0, data |-> data]

\* ----------------------------------------------------------------- actions

\* The symbols getCandlesMultiple can be asked for.
Symbols == {"A", "B"}

SymbolLists == UNION {[1..n -> Symbols] : n \in 1..NumFetches}

\* new Map<string, Candle[]>(): no symbol has an entry
NoResults == [n \in Symbols |-> [has |-> FALSE, candles |-> <<>>]]

\* getCandlesMultiple was not called
NotCalled ==
    [state |-> "idle", symbols |-> <<>>, amount |-> 0, at |-> 0,
     results |-> NoResults]

\* No call of getCandles was made, nothing is subscribed, no message has
\* arrived and nothing was sent.
Idle ==
    /\ args = [f \in Fetches |-> [amount |-> 0, from |-> 0, to |-> 0]]
    /\ rawCandles = [f \in Fetches |-> <<>>]
    /\ resolved = [f \in Fetches |-> FALSE]
    /\ requestCount = [f \in Fetches |-> 0]
    /\ lastLength = [f \in Fetches |-> 0]
    /\ stallCount = [f \in Fetches |-> 0]
    /\ timeout = [f \in Fetches |-> "none"]
    /\ promise = [f \in Fetches |-> "none"]
    /\ finalCandles = [f \in Fetches |-> <<>>]
    /\ subscribers = <<>>
    /\ wire = <<>>
    /\ crashed = FALSE
    /\ lens = [f \in Fetches |-> <<>>]
    /\ latest = [f \in Fetches |-> <<>>]
    /\ dup = [f \in Fetches |-> FALSE]
    /\ hard = [f \in Fetches |-> FALSE]
    /\ frames = <<>>
    /\ message = ""
    /\ payloads = <<>>
    /\ pos = 0
    /\ iteration = NoIteration
    /\ trace = <<>>
    /\ closeCalls = {}
    /\ sendLog = <<>>
    /\ multiple = NotCalled

\* The state in which connect (default options, no session id) has delivered
\* the handle: the first socket is open, the session is established, nothing
\* is subscribed and no call was made.
Init ==
    /\ Idle
    /\ readyState = "OPEN"
    /\ manuallyClosed = FALSE
    /\ connected = TRUE
    /\ reconnectAttempts = 0
    /\ reconnectTimers = <<>>
    /\ created = 1
    /\ orphans = 0
    /\ token = SENTINEL
    /\ sessionId = FALSE
    /\ autoReconnect = AutoReconnect
    /\ lookup = "none"
    /\ lookups = 0
    /\ connectPromise = "fulfilled"
    /\ resolveConnection = FALSE
    /\ connectTimer = "fired"
    /\ failed = 0

\* The state in which connect(options) has run its promise executor: the
\* 30 s timer is armed and initConnection has started, which with a session
\* id awaits getAuthToken and without one has created the first socket.
InitConnect ==
    /\ Idle
    /\ sessionId \in BOOLEAN
    /\ autoReconnect \in BOOLEAN
    /\ readyState = IF sessionId THEN "NONE" ELSE "CONNECTING"
    /\ created = IF sessionId THEN 0 ELSE 1
    /\ lookup = "none"
    /\ lookups = IF sessionId THEN 1 ELSE 0
    /\ orphans = 0
    /\ token = SENTINEL
    /\ manuallyClosed = FALSE
    /\ connected = FALSE
    /\ reconnectAttempts = 0
    /\ reconnectTimers = <<>>
    /\ connectPromise = "pending"
    /\ resolveConnection = TRUE
    /\ connectTimer = "armed"
    /\ failed = 0

\* mutant: the series is created before the symbol is resolved
GetCandlesReordered(f, a) ==
    /\ ~crashed
    /\ promise[f] = "none"
    /\ \A g \in 1..(f - 1) : promise[g] # "none"
    /\ args' = [args EXCEPT ![f] = a]
    /\ promise' = [promise EXCEPT ![f] = "pending"]
    /\ timeout' = [timeout EXCEPT ![f] = "armed"]
    /\ subscribers' = Append(subscribers, f)
    /\ wire' = Send(wire, <<Cmd("chart_create_session", f, 0),
                            Cmd("create_series", f, RequestAmount(a.amount)),
                            Cmd("resolve_symbol", f, 0)>>)
    /\ UNCHANGED <<rawCandles, resolved, requestCount, lastLength, stallCount,
                   finalCandles, readyState, crashed, lens, latest, dup, hard,
                   connVars, loopVars>>
    /\ UNCHANGED multiple

\* getCandles({connection, symbol, timeframe, amount, from, to}): the promise
\* executor arms the timer, subscribes and sends the three setup commands.
\* Calls are numbered in the order they are made.
Setup(f, a) ==
    /\ ~crashed
    /\ promise[f] = "none"
    /\ \A g \in 1..(f - 1) : promise[g] # "none"
    /\ args' = [args EXCEPT ![f] = a]
    /\ promise' = [promise EXCEPT ![f] = "pending"]
    /\ timeout' = [timeout EXCEPT ![f] = "armed"]
    /\ subscribers' = Append(subscribers, f)
    /\ wire' = Send(wire, <<Cmd("chart_create_session", f, 0),
                            Cmd("resolve_symbol", f, 0),
                            Cmd("create_series", f, RequestAmount(a.amount))>>)
    /\ UNCHANGED <<rawCandles, resolved, requestCount, lastLength, stallCount,
                   finalCandles, readyState, crashed, lens, latest, dup, hard,
                   connVars, loopVars>>

\* getCandles called by the application
GetCandles(f, a) == Setup(f, a) /\ UNCHANGED multiple

\* getCandlesMultiple(connection, symbols, timeframe, amount): the loop
\* reaches its first symbol and awaits getCandles for it
GetCandlesMultiple(symbols, amount) ==
    /\ multiple.state = "idle"
    /\ multiple' = [state |-> "running", symbols |-> symbols, amount |-> amount,
                    at |-> 1, results |-> NoResults]
    /\ Setup(1, [amount |-> amount, from |-> 0, to |-> 0])

\* mutant: the rejection of a call is not caught and ends the loop
MultipleResumesAborting ==
    /\ ~crashed
    /\ multiple.state = "running"
    /\ promise[multiple.at] \in {"fulfilled", "rejected"}
    /\ LET f == multiple.at
           results == [multiple.results EXCEPT ![multiple.symbols[f]] =
                          [has |-> TRUE, candles |-> finalCandles[f]]]
       IN  IF promise[f] = "rejected"
           THEN /\ multiple' = [multiple EXCEPT !.state = "returned"]
                /\ UNCHANGED <<args, rawCandles, resolved, requestCount,
                               lastLength, stallCount, timeout, promise,
                               finalCandles, subscribers, readyState, wire,
                               crashed, lens, latest, dup, hard, connVars,
                               loopVars>>
           ELSE IF f < Len(multiple.symbols)
           THEN /\ multiple' = [multiple EXCEPT !.at = f + 1, !.results = results]
                /\ Setup(f + 1, [amount |-> multiple.amount, from |-> 0, to |-> 0])
           ELSE /\ multiple' = [multiple EXCEPT !.state = "returned",
                                                !.results = results]
                /\ UNCHANGED <<args, rawCandles, resolved, requestCount,
                               lastLength, stallCount, timeout, promise,
                               finalCandles, subscribers, readyState, wire,
                               crashed, lens, latest, dup, hard, connVars,
                               loopVars>>

\* the await of getCandlesMultiple resumes when the call for the current
\* symbol has settled: results.set with the series, or in the catch block
\* with [], then the next symbol, or return results after the last
MultipleResumes ==
    /\ ~crashed
    /\ multiple.state = "running"
    /\ promise[multiple.at] \in {"fulfilled", "rejected"}
    /\ LET f == multiple.at
           candles == IF promise[f] = "fulfilled" THEN finalCandles[f] ELSE <<>>
           results == [multiple.results EXCEPT ![multiple.symbols[f]] =
                          [has |-> TRUE, candles |-> candles]]
       IN  IF f < Len(multiple.symbols)
           THEN /\ multiple' = [multiple EXCEPT !.at = f + 1, !.results = results]
                /\ Setup(f + 1, [amount |-> multiple.amount, from |-> 0, to |-> 0])
           ELSE /\ multiple' = [multiple EXCEPT !.state = "returned",
                                                !.results = results]
                /\ UNCHANGED <<args, rawCandles, resolved, requestCount,
                               lastLength, stallCount, timeout, promise,
                               finalCandles, subscribers, readyState, wire,
                               crashed, lens, latest, dup, hard, connVars,
                               loopVars>>

\* mutant: the timer unsubscribes but does not reject
TimeoutFiresSilent(f) ==
    /\ ~crashed
    /\ timeout[f] = "armed"
    /\ timeout' = [timeout EXCEPT ![f] = "fired"]
    /\ subscribers' = IF ~resolved[f] THEN SelectSeq(subscribers, LAMBDA g : g # f)
                      ELSE subscribers
    /\ UNCHANGED <<multiple, args, rawCandles, resolved, requestCount, lastLength, promise,
                   stallCount, finalCandles, readyState, wire, crashed, lens,
                   latest, dup, hard, connVars, loopVars>>

\* mutant: the timer rejects but leaves the handler subscribed
TimeoutFiresLeaks(f) ==
    /\ ~crashed
    /\ timeout[f] = "armed"
    /\ timeout' = [timeout EXCEPT ![f] = "fired"]
    /\ promise' = [promise EXCEPT ![f] =
                      IF ~resolved[f] /\ @ = "pending" THEN "rejected" ELSE @]
    /\ UNCHANGED <<multiple, args, rawCandles, resolved, requestCount, lastLength, subscribers,
                   stallCount, finalCandles, readyState, wire, crashed, lens,
                   latest, dup, hard, connVars, loopVars>>

\* mutant: the timer empties the registry
TimeoutFiresClearsAll(f) ==
    /\ ~crashed
    /\ timeout[f] = "armed"
    /\ timeout' = [timeout EXCEPT ![f] = "fired"]
    /\ IF ~resolved[f]
       THEN /\ subscribers' = <<>>
            /\ promise' = [promise EXCEPT ![f] =
                              IF @ = "pending" THEN "rejected" ELSE @]
       ELSE UNCHANGED <<subscribers, promise>>
    /\ UNCHANGED <<multiple, args, rawCandles, resolved, requestCount, lastLength,
                   stallCount, finalCandles, readyState, wire, crashed, lens,
                   latest, dup, hard, connVars, loopVars>>

\* the 120 s timer of call f fires
TimeoutFires(f) ==
    /\ ~crashed
    /\ timeout[f] = "armed"
    /\ timeout' = [timeout EXCEPT ![f] = "fired"]
    /\ IF ~resolved[f]
       THEN /\ subscribers' = SelectSeq(subscribers, LAMBDA g : g # f)
            /\ promise' = [promise EXCEPT ![f] =
                              IF @ = "pending" THEN "rejected" ELSE @]
       ELSE UNCHANGED <<subscribers, promise>>
    /\ UNCHANGED <<multiple, args, rawCandles, resolved, requestCount, lastLength,
                   stallCount, finalCandles, readyState, wire, crashed, lens,
                   latest, dup, hard, connVars, loopVars>>

\* ws.on('message') for a frame of type 'event': the event is handed to every
\* subscriber (with no subscriber nothing changes, and the step is left out).
\* An exception that leaves a handler is caught nowhere: it ends the process.
Dispatch(e) ==
    LET h == [f \in Fetches |-> After(f, e)]
    IN  /\ ~crashed
        /\ readyState \in {"OPEN", "CLOSING"}
        /\ subscribers # <<>>
        /\ rawCandles' = [f \in Fetches |-> h[f].rawCandles]
        /\ resolved' = [f \in Fetches |-> h[f].resolved]
        /\ requestCount' = [f \in Fetches |-> h[f].requestCount]
        /\ lastLength' = [f \in Fetches |-> h[f].lastLength]
        /\ stallCount' = [f \in Fetches |-> h[f].stallCount]
        /\ timeout' = [f \in Fetches |-> h[f].timeout]
        /\ promise' = [f \in Fetches |-> h[f].promise]
        /\ finalCandles' = [f \in Fetches |-> h[f].finalCandles]
        /\ lens' = [f \in Fetches |-> h[f].lens]
        /\ latest' = [f \in Fetches |-> h[f].latest]
        /\ dup' = [f \in Fetches |-> h[f].dup]
        /\ hard' = [f \in Fetches |-> h[f].hard]
        /\ subscribers' = SelectSeq(subscribers, LAMBDA f : ~h[f].unsub)
        /\ wire' = Send(wire, SendsOf(subscribers, e))
        /\ crashed' = \E f \in Fetches : h[f].throws
        /\ UNCHANGED <<multiple, args, readyState, connVars, loopVars>>

\* ws.on('message', data): parseMessage(data), then the loop over its
\* payloads. The listener runs to completion: while pos is not 0 nothing but
\* LoopStep and Invoke is enabled.
OnMessage(texts) ==
    /\ ~crashed
    /\ readyState \in {"OPEN", "CLOSING"}
    /\ pos = 0
    /\ message' = Encode(texts)
    /\ payloads' = parseMessage(message')
    /\ frames' = frames \o texts
    /\ pos' = IF payloads' = <<>> THEN 0 ELSE 1
    /\ UNCHANGED <<multiple, args, rawCandles, resolved, requestCount, lastLength, stallCount,
                   timeout, promise, finalCandles, subscribers, readyState, wire,
                   crashed, lens, latest, dup, hard, connVars, iteration, trace>>

\* one round of the loop: the switch on payload.type. A ping is answered
\* with payload.data by ws.send itself, which transmits on an open socket
\* only; a session frame authenticates, marks the connection connected and
\* hands the handle to resolveConnection if that is not null; an event
\* starts subscribers.forEach.
LoopStep ==
    /\ ~crashed
    /\ pos # 0
    /\ ~iteration.active
    /\ LET i == LoopOrder(Len(payloads))[pos]
           payload == payloads[i]
       IN  /\ trace' = IF payload.type = "ping" /\ readyState = "OPEN"
                       THEN Append(trace, Reply(Arrival(i), payload.data))
                       ELSE trace
           /\ wire' = IF payload.type = "session"
                      THEN Send(wire, <<AuthCmd(token)>>)
                      ELSE wire
           /\ connected' = IF payload.type = "session" THEN TRUE ELSE connected
           /\ connectPromise' = IF payload.type = "session" /\ resolveConnection
                                    /\ connectPromise = "pending"
                                 THEN "fulfilled" ELSE connectPromise
           /\ resolveConnection' = IF payload.type = "session" THEN FALSE
                                    ELSE resolveConnection
           /\ iteration' = IF payload.type = "event"
                           THEN [active |-> subscribers # <<>>,
                                 k |-> Arrival(i),
                                 queue |-> subscribers,
                                 atStart |-> Members(subscribers),
                                 added |-> {},
                                 removed |-> {}]
                           ELSE iteration
           /\ pos' = IF payload.type = "event" /\ subscribers # <<>>
                     THEN pos ELSE Advance
    /\ UNCHANGED <<multiple, args, rawCandles, resolved, requestCount, lastLength, stallCount,
                   timeout, promise, finalCandles, subscribers, readyState,
                   crashed, lens, latest, dup, hard, manuallyClosed,
                   reconnectAttempts, reconnectTimers, frames, message, payloads,
                   created, orphans, token, sessionId, autoReconnect, lookup, lookups,
                   connectTimer, closeCalls, failed, sendLog>>

\* subscribers.forEach((handler) => handler(event)) reaches its next entry.
\* A Set is iterated in insertion order: an entry added while the iteration
\* runs is visited, one deleted before it is reached is not. The handler
\* does b; an exception that leaves it is caught nowhere.
Invoke(b) ==
    /\ ~crashed
    /\ iteration.active
    /\ LET h == Head(iteration.queue)
           rest == Tail(iteration.queue)
           reg == Members(subscribers)
           adds == b.op = "subscribe" /\ b.g \notin reg
           dels == b.op = "unsubscribe" /\ b.g \in reg
           queue == IF adds THEN Append(rest, b.g)
                    ELSE IF dels THEN SelectSeq(rest, LAMBDA x : x # b.g)
                    ELSE rest
       IN  /\ trace' = Append(trace,
                  Call(h, iteration.k, payloads[LoopOrder(Len(payloads))[pos]].data))
           /\ subscribers' = IF adds THEN Append(subscribers, b.g)
                             ELSE IF dels THEN SelectSeq(subscribers, LAMBDA x : x # b.g)
                             ELSE subscribers
           /\ crashed' = (b.op = "throw")
           /\ iteration' = [iteration EXCEPT
                  !.queue = queue,
                  !.active = (b.op = "throw" \/ queue # <<>>),
                  !.added = IF adds THEN @ \cup {b.g} ELSE @,
                  !.removed = IF dels THEN @ \cup {b.g} ELSE @]
           /\ pos' = IF b.op # "throw" /\ queue = <<>> THEN Advance ELSE pos
    /\ UNCHANGED <<multiple, args, rawCandles, resolved, requestCount, lastLength, stallCount,
                   timeout, promise, finalCandles, readyState, wire, lens, latest,
                   dup, hard, connVars, frames, message, payloads>>

\* connection.subscribe(handler), called between two messages
Subscribe(h) ==
    /\ ~crashed
    /\ pos = 0
    /\ h \notin Members(subscribers)
    /\ subscribers' = Append(subscribers, h)
    /\ UNCHANGED <<multiple, args, rawCandles, resolved, requestCount, lastLength, stallCount,
                   timeout, promise, finalCandles, readyState, wire, crashed, lens,
                   latest, dup, hard, connVars, loopVars>>

\* the function subscribe returned, called between two messages
Unsubscribe(h) ==
    /\ ~crashed
    /\ pos = 0
    /\ h \in Members(subscribers)
    /\ subscribers' = SelectSeq(subscribers, LAMBDA x : x # h)
    /\ UNCHANGED <<multiple, args, rawCandles, resolved, requestCount, lastLength, stallCount,
                   timeout, promise, finalCandles, readyState, wire, crashed, lens,
                   latest, dup, hard, connVars, loopVars>>

\* the states of a socket that has yet to emit 'close'; "ABORTED" is a
\* socket closed while connecting, which never opens and delivers nothing
Live == {"CONNECTING", "OPEN", "CLOSING", "ABORTED"}

\* connection.close(), a method of the handle: sets manuallyClosed, and
\* with a socket waits for its 'close' event and calls ws.close(), which
\* starts the closing handshake of an open socket, aborts a socket that is
\* still connecting, and does nothing on a closed one; without a socket it
\* resolves at once.
Close ==
    /\ ~crashed
    /\ pos = 0
    /\ connectPromise = "fulfilled"
    /\ manuallyClosed' = TRUE
    /\ readyState' = CASE readyState = "OPEN" -> "CLOSING"
                       [] readyState = "CONNECTING" -> "ABORTED"
                       [] OTHER -> readyState
    /\ closeCalls' = closeCalls \cup {[on |-> created, resolved |-> created = 0]}
    /\ UNCHANGED <<multiple, args, rawCandles, resolved, requestCount, lastLength, stallCount,
                   timeout, promise, finalCandles, subscribers, wire, crashed, lens,
                   latest, dup, hard, connected, reconnectAttempts, reconnectTimers,
                   created, orphans, token, sessionId, autoReconnect, lookup, lookups,
                   connectPromise, resolveConnection, connectTimer, failed,
                   sendLog, loopVars>>

\* 5000 * Math.pow(1.5, n) in delay units, multiplied out one factor at a
\* time and no further once it has passed the cap, so that it stays within
\* the integers of the checker
RECURSIVE Pow(_)
Pow(n) ==
    IF n = 0 THEN BaseDelay * DelayUnit
    ELSE LET p == Pow(n - 1)
         IN  IF p >= MaxDelay * DelayUnit THEN p ELSE (p * 3) \div 2

\* mutant: the delay is not capped
ReconnectDelayUncapped(n) == Pow(n)

\* Math.min(5000 * Math.pow(1.5, reconnectAttempts), 60000), in delay units
ReconnectDelay(n) == Min(Pow(n), MaxDelay * DelayUnit)

\* mutant: the listener does not look at manuallyClosed
ClosedIgnoringManual ==
    /\ readyState' = "CLOSED"
    /\ connected' = FALSE
    /\ failed' = failed + 1
    /\ closeCalls' = {[c EXCEPT !.resolved = c.resolved \/ c.on = created] :
                         c \in closeCalls}
    /\ IF autoReconnect
       THEN /\ reconnectAttempts' = reconnectAttempts + 1
            /\ reconnectTimers' =
                  Append(reconnectTimers, ReconnectDelay(reconnectAttempts))
       ELSE UNCHANGED <<reconnectAttempts, reconnectTimers>>

\* mutant: the listener gives up once connect has failed
ClosedUnlessFailed ==
    /\ readyState' = "CLOSED"
    /\ connected' = FALSE
    /\ failed' = failed + 1
    /\ closeCalls' = {[c EXCEPT !.resolved = c.resolved \/ c.on = created] :
                         c \in closeCalls}
    /\ IF autoReconnect /\ ~manuallyClosed
          /\ connectPromise \notin {"timeout", "error"}
       THEN /\ reconnectAttempts' = reconnectAttempts + 1
            /\ reconnectTimers' =
                  Append(reconnectTimers, ReconnectDelay(reconnectAttempts))
       ELSE UNCHANGED <<reconnectAttempts, reconnectTimers>>

\* the listener of ws 'close', and the listeners close() registered with
\* ws.once: the socket is closed; unless autoReconnect is off or close() was
\* called, initConnection is scheduled
Closed ==
    /\ readyState' = "CLOSED"
    /\ connected' = FALSE
    /\ failed' = failed + 1
    /\ closeCalls' = {[c EXCEPT !.resolved = c.resolved \/ c.on = created] :
                         c \in closeCalls}
    /\ IF autoReconnect /\ ~manuallyClosed
       THEN /\ reconnectAttempts' = reconnectAttempts + 1
            /\ reconnectTimers' =
                  Append(reconnectTimers, ReconnectDelay(reconnectAttempts))
       ELSE UNCHANGED <<reconnectAttempts, reconnectTimers>>

\* ws.on('close'), after the closing handshake or when the connection drops
OnClose ==
    /\ ~crashed
    /\ pos = 0
    /\ readyState \in {"OPEN", "CLOSING", "ABORTED"}
    /\ Closed
    /\ UNCHANGED <<multiple, args, rawCandles, resolved, requestCount, lastLength, stallCount,
                   timeout, promise, finalCandles, subscribers, wire, crashed, lens,
                   latest, dup, hard, manuallyClosed, created, orphans, token,
                   sessionId, autoReconnect, lookup, lookups, connectPromise,
                   resolveConnection, connectTimer, sendLog, loopVars>>

\* getAuthToken(sessionId): the auth_token found in the page, the sentinel
\* when the page has none or the request fails
GetAuthToken(outcome) == IF outcome = "match" THEN "auth_token" ELSE SENTINEL

LookupOutcomes == {"match", "nomatch", "error"}

\* mutant: a failed request is not caught; initConnection rejects and
\* connect fails with that error
TokenReturnsThrowing(outcome) ==
    /\ ~crashed
    /\ pos = 0
    /\ lookups > 0
    /\ lookups' = lookups - 1
    /\ lookup' = outcome
    /\ IF outcome = "error"
       THEN /\ connectPromise' = IF connectPromise = "pending" THEN "error"
                                 ELSE connectPromise
            /\ UNCHANGED <<token, created, readyState, orphans>>
       ELSE /\ token' = GetAuthToken(outcome)
            /\ created' = created + 1
            /\ readyState' = "CONNECTING"
            /\ orphans' = IF readyState \in Live
                          THEN orphans + 1 ELSE orphans
            /\ UNCHANGED connectPromise
    /\ UNCHANGED <<multiple, args, rawCandles, resolved, requestCount, lastLength, stallCount,
                   timeout, promise, finalCandles, subscribers, wire, crashed, lens,
                   latest, dup, hard, manuallyClosed, connected, reconnectAttempts,
                   reconnectTimers, sessionId, autoReconnect,
                   resolveConnection, connectTimer, closeCalls, failed, sendLog,
                   loopVars>>

\* initConnection resumes when getAuthToken has returned: the token is
\* assigned and ws becomes a new socket
TokenReturns(outcome) ==
    /\ ~crashed
    /\ pos = 0
    /\ lookups > 0
    /\ lookups' = lookups - 1
    /\ lookup' = outcome
    /\ token' = GetAuthToken(outcome)
    /\ created' = created + 1
    /\ readyState' = "CONNECTING"
    /\ orphans' = IF readyState \in Live
                  THEN orphans + 1 ELSE orphans
    /\ UNCHANGED <<multiple, args, rawCandles, resolved, requestCount, lastLength, stallCount,
                   timeout, promise, finalCandles, subscribers, wire, crashed, lens,
                   latest, dup, hard, manuallyClosed, connected, reconnectAttempts,
                   reconnectTimers, sessionId, autoReconnect, connectPromise,
                   resolveConnection, connectTimer, closeCalls, failed, sendLog,
                   loopVars>>

\* mutant: the timer is not consumed when it fires
ReconnectFiresRepeating(i) ==
    /\ ~crashed
    /\ pos = 0
    /\ i \in 1..Len(reconnectTimers)
    /\ UNCHANGED lookup
    /\ IF sessionId
       THEN /\ lookups' = lookups + 1
            /\ UNCHANGED <<created, readyState, orphans>>
       ELSE /\ created' = created + 1
            /\ readyState' = "CONNECTING"
            /\ orphans' = IF readyState \in Live
                          THEN orphans + 1 ELSE orphans
            /\ UNCHANGED lookups
    /\ UNCHANGED <<multiple, args, rawCandles, resolved, requestCount, lastLength, stallCount,
                   timeout, promise, finalCandles, subscribers, wire, crashed, lens,
                   latest, dup, hard, manuallyClosed, connected, reconnectAttempts,
                   reconnectTimers, token, sessionId, autoReconnect, connectPromise,
                   resolveConnection, connectTimer, closeCalls, failed, sendLog,
                   loopVars>>

\* a timer set by the 'close' listener fires: initConnection runs, which
\* with a session id awaits getAuthToken and without one creates the socket
ReconnectFires(i) ==
    /\ ~crashed
    /\ pos = 0
    /\ i \in 1..Len(reconnectTimers)
    /\ reconnectTimers' = SubSeq(reconnectTimers, 1, i - 1)
                          \o SubSeq(reconnectTimers, i + 1, Len(reconnectTimers))
    /\ UNCHANGED lookup
    /\ IF sessionId
       THEN /\ lookups' = lookups + 1
            /\ UNCHANGED <<created, readyState, orphans>>
       ELSE /\ created' = created + 1
            /\ readyState' = "CONNECTING"
            /\ orphans' = IF readyState \in Live
                          THEN orphans + 1 ELSE orphans
            /\ UNCHANGED lookups
    /\ UNCHANGED <<multiple, args, rawCandles, resolved, requestCount, lastLength, stallCount,
                   timeout, promise, finalCandles, subscribers, wire, crashed, lens,
                   latest, dup, hard, manuallyClosed, connected, reconnectAttempts,
                   token, sessionId, autoReconnect, connectPromise,
                   resolveConnection, connectTimer, closeCalls, failed, sendLog,
                   loopVars>>

\* mutant: the counter survives the open
OnOpenKeepsAttempts ==
    /\ ~crashed
    /\ pos = 0
    /\ readyState = "CONNECTING"
    /\ readyState' = "OPEN"
    /\ failed' = 0
    /\ UNCHANGED <<multiple, args, rawCandles, resolved, requestCount, lastLength, stallCount,
                   timeout, promise, finalCandles, subscribers, wire, crashed, lens,
                   latest, dup, hard, manuallyClosed, connected, reconnectAttempts,
                   reconnectTimers, created, orphans, token, sessionId,
                   autoReconnect, lookup, lookups, connectPromise, resolveConnection,
                   connectTimer, closeCalls, sendLog, loopVars>>

\* ws.on('open')
OnOpen ==
    /\ ~crashed
    /\ pos = 0
    /\ readyState = "CONNECTING"
    /\ readyState' = "OPEN"
    /\ reconnectAttempts' = 0
    /\ failed' = 0
    /\ UNCHANGED <<multiple, args, rawCandles, resolved, requestCount, lastLength, stallCount,
                   timeout, promise, finalCandles, subscribers, wire, crashed, lens,
                   latest, dup, hard, manuallyClosed, connected,
                   reconnectTimers, created, orphans, token, sessionId,
                   autoReconnect, lookup, lookups, connectPromise, resolveConnection,
                   connectTimer, closeCalls, sendLog, loopVars>>

\* ws.on('error'), on a socket that fails to connect or breaks: the
\* listener rejects through connectionPromiseCallback, which is never
\* cleared; ws then emits 'close', with no message in between
OnError ==
    /\ ~crashed
    /\ pos = 0
    /\ readyState \in {"CONNECTING", "OPEN"}
    /\ connectPromise' = IF connectPromise = "pending" THEN "error"
                         ELSE connectPromise
    /\ Closed
    /\ UNCHANGED <<multiple, args, rawCandles, resolved, requestCount, lastLength, stallCount,
                   timeout, promise, finalCandles, subscribers, wire, crashed, lens,
                   latest, dup, hard, manuallyClosed, created, orphans, token,
                   sessionId, autoReconnect, lookup, lookups, resolveConnection,
                   connectTimer, sendLog, loopVars>>

\* mutant: the timer gives up without rejecting
ConnectTimeoutSilent ==
    /\ ~crashed
    /\ pos = 0
    /\ connectTimer = "armed"
    /\ connectTimer' = "fired"
    /\ resolveConnection' = IF ~connected THEN FALSE ELSE resolveConnection
    /\ UNCHANGED <<multiple, args, rawCandles, resolved, requestCount, lastLength, stallCount,
                   timeout, promise, finalCandles, subscribers, readyState, wire,
                   crashed, lens, latest, dup, hard, manuallyClosed, connected,
                   reconnectAttempts, reconnectTimers, created, orphans, token,
                   sessionId, autoReconnect, lookup, lookups, connectPromise, closeCalls,
                   failed, sendLog, loopVars>>

\* the 30 s timer of connect fires
ConnectTimeout ==
    /\ ~crashed
    /\ pos = 0
    /\ connectTimer = "armed"
    /\ connectTimer' = "fired"
    /\ IF ~connected /\ resolveConnection
       THEN /\ connectPromise' = IF connectPromise = "pending" THEN "timeout"
                                 ELSE connectPromise
            /\ resolveConnection' = FALSE
       ELSE UNCHANGED <<connectPromise, resolveConnection>>
    /\ UNCHANGED <<multiple, args, rawCandles, resolved, requestCount, lastLength, stallCount,
                   timeout, promise, finalCandles, subscribers, readyState, wire,
                   crashed, lens, latest, dup, hard, manuallyClosed, connected,
                   reconnectAttempts, reconnectTimers, created, orphans, token,
                   sessionId, autoReconnect, lookup, lookups, closeCalls, failed, sendLog,
                   loopVars>>

\* connection.send(name, params), called by the application between two
\* messages; the calls are numbered
SendCommand ==
    /\ ~crashed
    /\ pos = 0
    /\ connectPromise = "fulfilled"
    /\ wire' = Send(wire, <<Cmd("quote_add_symbols", 0, Len(sendLog) + 1)>>)
    /\ sendLog' = Append(sendLog, readyState = "OPEN")
    /\ UNCHANGED <<multiple, args, rawCandles, resolved, requestCount, lastLength, stallCount,
                   timeout, promise, finalCandles, subscribers, readyState,
                   crashed, lens, latest, dup, hard, manuallyClosed, connected,
                   reconnectAttempts, reconnectTimers, created, orphans, token,
                   sessionId, autoReconnect, lookup, lookups, connectPromise,
                   resolveConnection, connectTimer, closeCalls, failed, loopVars>>

\* --------------------------------------------------------- specifications

\* The service is bounded: a push is delivered only while every accumulator
\* it reaches stays within maxRaw bars.
Fits(e, maxRaw) ==
    e.has => \A i \in 1..Len(subscribers) :
                Len(rawCandles[subscribers[i]]) + Len(e.s) <= maxRaw

\* One call of getCandles, any parameters, any pushes.
Params == [amount : 0..MaxTs, from : 0..MaxTs, to : 0..MaxTs]

Events ==
    PushEvents({1}, Batches(RawCandles(1..MaxTs, {"a"}), MaxBatch))
    \cup CompletionEvents({1})

Next ==
    \/ \E a \in Params : GetCandles(1, a)
    \/ TimeoutFires(1)
    \/ \E e \in Events : Fits(e, MaxTs) /\ Dispatch(e)

Spec == Init /\ [][Next]_vars

\* Up to NumFetches calls on the same connection, concurrent or one after
\* another.
PairParams ==
    {[amount |-> 1, from |-> 0, to |-> 0], [amount |-> 0, from |-> 1, to |-> 0]}

\* pushes of at most one bar, out of two, into accumulators that hold none
PairEvents ==
    PushEvents(Fetches, Batches(RawCandles({1, 2}, {"a"}), 1))
    \cup CompletionEvents(Fetches)

NextPair ==
    \/ \E f \in Fetches, a \in PairParams : GetCandles(f, a)
    \/ \E f \in Fetches : TimeoutFires(f)
    \/ \E e \in PairEvents : Fits(e, 1) /\ Dispatch(e)

SpecPair == Init /\ [][NextPair]_vars

\* One call without bounds, served bars that differ in their values.
ValueParams == [amount : 0..1, from : {0}, to : {0}]

ValueEvents ==
    PushEvents({1}, Batches(RawCandles(1..MaxTs, Values), MaxBatch))
    \cup CompletionEvents({1})

NextValues ==
    \/ \E a \in ValueParams : GetCandles(1, a)
    \/ TimeoutFires(1)
    \/ \E e \in ValueEvents : Fits(e, MaxTs + 1) /\ Dispatch(e)

SpecValues == Init /\ [][NextValues]_vars

\* The scenario of a request for 10 bars served from a history of 4 bars,
\* which the service sends oldest first.
ScenarioParams == [amount : {10}, from : {0}, to : {0, 2}]

Ascending(s) == \A i, j \in 1..Len(s) : i < j => s[i].t < s[j].t

ScenarioEvents ==
    PushEvents({1}, {s \in Batches(RawCandles(1..4, {"a"}), 4) : Ascending(s)})
    \cup CompletionEvents({1})

NextScenario ==
    \/ \E a \in ScenarioParams : GetCandles(1, a)
    \/ TimeoutFires(1)
    \/ \E e \in ScenarioEvents : Fits(e, 4) /\ Dispatch(e)

SpecScenario == Init /\ [][NextScenario]_vars

\* One call on a connection that the application closes, or that drops,
\* served completion events and hard errors.
CloseParams ==
    {[amount |-> 1, from |-> 0, to |-> 0], [amount |-> 0, from |-> 0, to |-> 0]}

CloseEvents ==
    PushEvents({1}, Batches(RawCandles({1}, {"a"}), 1)) \cup SignalEvents({1})

NextClose ==
    \/ \E a \in CloseParams : GetCandles(1, a)
    \/ TimeoutFires(1)
    \/ \E e \in CloseEvents : Fits(e, 1) /\ Dispatch(e)
    \/ Close
    \/ OnClose

SpecClose == Init /\ [][NextClose]_vars

\* parseMessage applied to one chunk of up to MaxFrames frames, each the
\* envelope of one of these payloads: a heartbeat, events and a session
\* record with and without the ~j~ prefix, an event whose name holds the
\* text of a marker, two texts that are not JSON, and the empty payload.
CodecTexts ==
    {"~h~1", "{\"m\":\"a\"}", "~j~{\"m\":\"b\"}", "~j~{\"session_id\":\"s\"}",
     "{\"m\":\"~m~1~m~\"}", "~j~{", "x", ""}

CodecChunks == UNION {[1..n -> CodecTexts] : n \in 0..MaxFrames}

NextCodec == \E texts \in CodecChunks : frames = <<>> /\ OnMessage(texts)

SpecCodec == Init /\ [][NextCodec]_vars

\* The message loop with up to two subscribers that subscribe,
\* unsubscribe and throw at will, fed chunks of heartbeats, events and
\* session records, MaxFrames frames in all.
LoopTexts == {"~h~1", "{\"m\":\"a\"}", "~j~{\"session_id\":\"s\"}"}

LoopChunks == UNION {[1..n -> LoopTexts] : n \in 1..MaxFrames}

NextLoop ==
    \/ \E texts \in LoopChunks :
          Len(frames) + Len(texts) <= MaxFrames /\ OnMessage(texts)
    \/ LoopStep
    \/ \E b \in Behaviours : Invoke(b)
    \/ \E h \in Handlers : Subscribe(h)
    \/ \E h \in Handlers : Unsubscribe(h)

SpecLoop == Init /\ [][NextLoop]_vars

\* The life of one connection from the call of connect, with or without a
\* session id and with or without autoReconnect: sockets open, fail and
\* close, timers fire, session frames arrive alone or in pairs, and the
\* application, once it holds the handle, sends and closes at will.
LifeChunks == {<<"~j~{\"session_id\":\"s\"}">>,
               <<"~j~{\"session_id\":\"s\"}", "~j~{\"session_id\":\"s\"}">>}

NextLife ==
    \/ \E outcome \in LookupOutcomes : TokenReturns(outcome)
    \/ OnOpen
    \/ OnError
    \/ OnClose
    \/ \E i \in 1..MaxSockets :
          created + lookups < MaxSockets /\ ReconnectFires(i)
    \/ ConnectTimeout
    \/ \E texts \in LifeChunks :
          Len(frames) + Len(texts) <= MaxFrames /\ OnMessage(texts)
    \/ LoopStep
    \/ Len(sendLog) < MaxSends /\ SendCommand
    \/ Close

SpecLife == InitConnect /\ [][NextLife]_vars

\* A server that is hard to reach: connect is called, sockets fail while
\* connecting or after they opened, and the timers fire, up to MaxAttempts
\* sockets; no session frame arrives.
NextBackoff ==
    \/ \E outcome \in LookupOutcomes : TokenReturns(outcome)
    \/ OnOpen
    \/ OnError
    \/ OnClose
    \/ \E i \in 1..MaxAttempts :
          created + lookups < MaxAttempts /\ ReconnectFires(i)
    \/ ConnectTimeout

SpecBackoff == InitConnect /\ [][NextBackoff]_vars

\* The same, with the event loop running every timer that is due: a
\* reconnect timer that is pending fires.
TimerDue ==
    \E i \in 1..MaxAttempts :
        created + lookups < MaxAttempts /\ ReconnectFires(i)

SpecBackoffFair == SpecBackoff /\ WF_vars(TimerDue)

\* One call served pushes of one bar, completion events, soft errors and
\* events of another name.
SignalParams ==
    {[amount |-> 2, from |-> 0, to |-> 0], [amount |-> 0, from |-> 1, to |-> 0]}

AllEvents ==
    PushEvents({1}, Batches(RawCandles(1..MaxTs, {"a"}), 1)) \cup SignalEvents({1})

NextSignals ==
    \/ \E a \in SignalParams : GetCandles(1, a)
    \/ TimeoutFires(1)
    \/ \E e \in AllEvents : Fits(e, MaxTs) /\ Dispatch(e)

SpecSignals == Init /\ [][NextSignals]_vars

\* getCandlesMultiple for up to NumFetches symbols, a symbol possibly
\* twice, with amount 1 or without amount, served pushes of one bar and
\* completion events while the timers run.
NextMultiple ==
    \/ \E symbols \in SymbolLists, amount \in {0, 1} :
          GetCandlesMultiple(symbols, amount)
    \/ MultipleResumes
    \/ \E f \in Fetches : TimeoutFires(f)
    \/ \E e \in PairEvents : Fits(e, 1) /\ Dispatch(e)

SpecMultiple == Init /\ [][NextMultiple]_vars

\* A connection that drops and reconnects under subscribers: handlers
\* subscribe while the first socket is the current one and unsubscribe at
\* any time, session frames arrive on every socket, event frames on the
\* reconnected ones, and a handler returns or throws.
ReconnectChunks == {<<"~j~{\"session_id\":\"s\"}">>, <<"{\"m\":\"a\"}">>}

ReconnectBehaviours == [op : {"return", "throw"}, g : {0}]

NextReconnect ==
    \/ \E h \in Handlers : created = 1 /\ Subscribe(h)
    \/ \E h \in Handlers : Unsubscribe(h)
    \/ OnClose
    \/ OnError
    \/ \E i \in 1..MaxSockets : created < MaxSockets /\ ReconnectFires(i)
    \/ OnOpen
    \/ \E texts \in ReconnectChunks :
          /\ Len(frames) + Len(texts) <= MaxFrames
          /\ ParseSegment(texts[1]).type = "event" => created >= 2
          /\ OnMessage(texts)
    \/ LoopStep
    \/ \E b \in ReconnectBehaviours : Invoke(b)

SpecReconnect == Init /\ [][NextReconnect]_vars

\* ------------------------------------------------------------- properties

Range(q) == {q[i] : i \in 1..Len(q)}

\* the "request more data" commands call f has put on the wire
MoreSent(f) ==
    Cardinality({i \in 1..Len(wire) :
                    wire[i].name = "request_more_data" /\ wire[i].sess = f})

\* everything call f owns
FetchState(f) ==
    <<rawCandles[f], resolved[f], requestCount[f], lastLength[f], stallCount[f],
      timeout[f], promise[f], finalCandles[f]>>

StrictlyAscending(q) ==
    \A i, j \in 1..Len(q) : i < j => q[i].timestamp < q[j].timestamp

\* the last three completion events each found the length the previous
\* completion event had recorded
ThreeUnchanged(l) ==
    /\ Len(l) >= 4
    /\ \A k \in 1..3 : l[Len(l) - k + 1] = l[Len(l) - k]

\* C1: with two calls in flight, an event whose session identifier is not
\* that of call f changes nothing call f owns and makes f send no command.
C1_ForeignEventsDiscarded ==
    [][\A e \in PairEvents : \A f \in Fetches :
          (Dispatch(e) /\ e.sess # f /\ promise[f] = "pending"
                       /\ promise[e.sess] = "pending")
          => (FetchState(f)' = FetchState(f) /\ MoreSent(f)' = MoreSent(f))]_vars

\* C2: the series a call resolves with is strictly ascending by timestamp,
\* hence holds no timestamp twice.
C2_ResultStrictlyAscending ==
    \A f \in Fetches :
        promise[f] = "fulfilled" => StrictlyAscending(finalCandles[f])

C2_Witness ==
    \E f \in Fetches :
        /\ promise[f] = "fulfilled"
        /\ dup[f]
        /\ Len(lens[f]) >= 2
        /\ Len(finalCandles[f]) >= 2

\* C3: a timestamp delivered more than once is resolved with the values of
\* the bar received last.
C3_LatestValueWins ==
    \A f \in Fetches :
        promise[f] = "fulfilled" =>
            \A i \in 1..Len(finalCandles[f]) :
                finalCandles[f][i].value = latest[f][finalCandles[f][i].timestamp]

\* C4: after three consecutive completion events without growth the call has
\* resolved and the last of them sent no request, also when from is set and
\* the oldest bar is still later than from.
C4_StallCutoff ==
    \A f \in Fetches :
        ThreeUnchanged(lens[f]) =>
            /\ promise[f] = "fulfilled"
            /\ MoreSent(f) < Len(lens[f])

C4_Witness ==
    \E f \in Fetches :
        /\ ThreeUnchanged(lens[f])
        /\ promise[f] = "fulfilled"
        /\ Truthy(args[f].from)
        /\ Len(rawCandles[f]) > 0
        /\ rawCandles[f][1].t > args[f].from

\* The scenario of C5: amount 10, no from, exactly 4 bars received (no
\* timestamp twice), every completion event finding those 4, resolved.
Scenario(f) ==
    /\ args[f].amount = 10
    /\ ~Truthy(args[f].from)
    /\ promise[f] = "fulfilled"
    /\ ~dup[f]
    /\ Cardinality(DOMAIN latest[f]) = 4
    /\ \A i \in 1..Len(lens[f]) : lens[f][i] = 4

\* C5 as stated: the call resolves with the 4 bars after exactly 2 requests
\* for more data.
C5_TwoRequests ==
    \A f \in Fetches :
        Scenario(f) => (Len(finalCandles[f]) = 4 /\ MoreSent(f) = 2)

\* C5 amended: with no to bound, the call resolves with the 4 bars at the
\* fourth completion event, after exactly 3 requests for more data.
C5_ThreeRequests ==
    \A f \in Fetches :
        (Scenario(f) /\ ~Truthy(args[f].to)) =>
            /\ Len(finalCandles[f]) = 4
            /\ finalCandles[f] = MapCandles(rawCandles[f])
            /\ MoreSent(f) = 3
            /\ Len(lens[f]) = 4

C5_Witness ==
    \E f \in Fetches : Scenario(f) /\ ~Truthy(args[f].to) /\ MoreSent(f) = 3

\* amount set, no from, and the first completion event found at least amount
\* bars
FirstEnough(f) ==
    /\ Truthy(args[f].amount)
    /\ ~Truthy(args[f].from)
    /\ Len(lens[f]) >= 1
    /\ lens[f][1] >= args[f].amount

\* the timestamps received by call f that pass its to bound
Admitted(f) ==
    {t \in DOMAIN latest[f] : ~Truthy(args[f].to) \/ t <= args[f].to}

\* C6 as stated: the call resolves at that event with exactly amount bars,
\* ascending, and never requests more data.
C6_ExactlyAmount ==
    \A f \in Fetches :
        FirstEnough(f) =>
            /\ promise[f] = "fulfilled"
            /\ Len(lens[f]) = 1
            /\ Len(finalCandles[f]) = args[f].amount
            /\ StrictlyAscending(finalCandles[f])
            /\ MoreSent(f) = 0

\* C6 amended: the call resolves at that event, never requests more data, and
\* its result is ascending and holds the amount most recent bars that pass
\* the to bound: exactly amount bars when to is not set.
C6_AmountOfAdmitted ==
    \A f \in Fetches :
        FirstEnough(f) =>
            /\ promise[f] = "fulfilled"
            /\ Len(lens[f]) = 1
            /\ Len(finalCandles[f]) = Min(args[f].amount, Cardinality(Admitted(f)))
            /\ ~Truthy(args[f].to) => Len(finalCandles[f]) = args[f].amount
            /\ StrictlyAscending(finalCandles[f])
            /\ MoreSent(f) = 0

C6_Witness ==
    \E f \in Fetches :
        /\ FirstEnough(f)
        /\ ~Truthy(args[f].to)
        /\ lens[f][1] > args[f].amount
        /\ Len(finalCandles[f]) = args[f].amount

\* C7: with from and to both set, every bar of the result lies in [from, to],
\* also when the stall cutoff ended the retrieval.
C7_WithinBounds ==
    \A f \in Fetches :
        (promise[f] = "fulfilled" /\ Truthy(args[f].from) /\ Truthy(args[f].to)) =>
            \A i \in 1..Len(finalCandles[f]) :
                /\ args[f].from <= finalCandles[f][i].timestamp
                /\ finalCandles[f][i].timestamp <= args[f].to

C7_Witness ==
    \E f \in Fetches :
        /\ promise[f] = "fulfilled"
        /\ Truthy(args[f].from) /\ Truthy(args[f].to)
        /\ stallCount[f] >= StallLimit
        /\ Len(finalCandles[f]) >= 1

\* the deduplicated series of a resolved call, filtered by from and to
Filtered(f) ==
    {c \in Range(MapCandles(rawCandles[f])) :
        /\ Truthy(args[f].from) => c.timestamp >= args[f].from
        /\ Truthy(args[f].to) => c.timestamp <= args[f].to}

\* C8: with amount set and from not set the result is the amount latest bars
\* of the filtered series (all of them if fewer); otherwise it is the whole
\* filtered series.
C8_TruncationRule ==
    \A f \in Fetches :
        promise[f] = "fulfilled" =>
            LET R == Range(finalCandles[f])
                F == Filtered(f)
            IN  /\ Cardinality(R) = Len(finalCandles[f])
                /\ IF Truthy(args[f].amount) /\ ~Truthy(args[f].from)
                   THEN /\ R \subseteq F
                        /\ Cardinality(R) = Min(args[f].amount, Cardinality(F))
                        /\ \A r \in R : \A x \in F \ R : x.timestamp < r.timestamp
                   ELSE R = F

C8_Witness ==
    \E f \in Fetches :
        /\ promise[f] = "fulfilled"
        /\ Truthy(args[f].amount) /\ ~Truthy(args[f].from)
        /\ Len(finalCandles[f]) = args[f].amount
        /\ Cardinality(Filtered(f)) > args[f].amount

\* C9: a timer that fires on a call not yet finalized rejects its promise,
\* and a rejected promise stays rejected.
C9_TimeoutRejects ==
    [][\A f \in Fetches :
          /\ (timeout[f] = "armed" /\ timeout'[f] = "fired" /\ ~resolved[f])
                => promise'[f] = "rejected"
          /\ promise[f] = "rejected"
                => (promise'[f] = "rejected" /\ FetchState(f)' = FetchState(f))]_vars

C9_Witness ==
    \E f \in Fetches :
        /\ promise[f] = "rejected"
        /\ timeout[f] = "fired"
        /\ requestCount[f] >= 1

\* C10: the handler of a settled call is not in the subscriber registry.
C10_SettledUnsubscribed ==
    \A f \in Fetches :
        promise[f] \in {"fulfilled", "rejected"} => f \notin Range(subscribers)

C10_Witness ==
    /\ promise[1] = "fulfilled"
    /\ promise[2] = "rejected"
    /\ subscribers = <<>>

\* C11: the critical_error event handed to the handler of a pending call
\* makes that call fail, and leaves the connection as it was, open and
\* connected.
C11_HardErrorFails ==
    [][\A f \in Fetches :
          (~hard[f] /\ hard'[f]) =>
              /\ promise'[f] = "rejected"
              /\ readyState' = readyState
              /\ connected' = connected]_vars

\* C12: a symbol_error event handed to a pending call is handled as a
\* series_completed event would be, and either one more request for data
\* goes out and the call stays pending, or the call resolves with the bars
\* accumulated so far; no exception is raised.
C12_SoftErrorContinues ==
    [][\A e \in Events :
          (e.name = "symbol_error" /\ promise[1] = "pending" /\ Dispatch(e)) =>
              /\ Dispatch([e EXCEPT !.name = "series_completed"])
              /\ ~crashed'
              /\ \/ /\ promise'[1] = "pending"
                    /\ MoreSent(1)' = MoreSent(1) + 1
                 \/ /\ promise'[1] = "fulfilled"
                    /\ finalCandles'[1] = Finalize(rawCandles'[1], args[1])]_vars

\* C13: when the socket closes after close() was called, a call that was
\* still pending has failed.
C13_CloseFailsPending ==
    [][\A f \in Fetches :
          (manuallyClosed /\ readyState = "CLOSING" /\ readyState' = "CLOSED"
           /\ promise[f] = "pending") => promise'[f] = "rejected"]_vars

Calls(h, k) ==
    {i \in 1..Len(trace) :
        trace[i].kind = "call" /\ trace[i].h = h /\ trace[i].k = k}

\* C14: every handler invoked for the event being dispatched was registered
\* when its dispatch started.
C14_LateSubscriberSkipped ==
    \A i \in 1..Len(trace) :
        (trace[i].kind = "call" /\ trace[i].k = iteration.k) =>
            trace[i].h \in iteration.atStart

\* C15: once a handler has thrown, the handlers registered for that event
\* (and not unsubscribed) have all been invoked and the chunk has been
\* processed to its end.
C15_ThrowIsolated ==
    crashed =>
        /\ \A h \in iteration.atStart \ iteration.removed :
              Calls(h, iteration.k) # {}
        /\ pos = 0

\* C16: when the dispatch of an event is over, every handler that was
\* registered at its start and was not unsubscribed during it has been
\* invoked for it exactly once.
C16_ExactlyOnce ==
    (iteration.k # 0 /\ (~iteration.active \/ crashed)) =>
        \A h \in iteration.atStart \ iteration.removed :
            Cardinality(Calls(h, iteration.k)) = 1

\* C17: handlers are invoked in the order the frames arrived, each with the
\* event of the frame at that place: no invocation for a frame follows one
\* for a later frame.
C17_ArrivalOrder ==
    \A i \in 1..Len(trace) :
        trace[i].kind = "call" =>
            /\ trace[i].data = ParseSegment(frames[trace[i].k]).data
            /\ \A j \in (i + 1)..Len(trace) :
                  trace[j].kind = "call" => trace[i].k <= trace[j].k

C17_Witness ==
    /\ pos = 0
    /\ \E i, j \in 1..Len(trace) :
          /\ trace[i].kind = "call" /\ trace[j].kind = "call"
          /\ trace[i].h = trace[j].h
          /\ trace[i].k < trace[j].k
          /\ Len(payloads) >= 2
          /\ Arrival(1) <= trace[i].k
    /\ \E i, j \in 1..Len(trace) :
          /\ trace[i].kind = "call" /\ trace[j].kind = "call"
          /\ trace[i].h # trace[j].h
          /\ trace[i].k = trace[j].k

\* C18: a chunk of N framed payloads decodes to N payloads, the i-th being
\* what the i-th frame decodes to; the empty chunk decodes to none.
C18_OneFramePerFrame ==
    /\ parseMessage("") = <<>>
    /\ message # "" =>
          /\ Len(payloads) = Len(frames)
          /\ \A i \in 1..Len(frames) : payloads[i] = ParseSegment(frames[i])

Remove(q, i) == SubSeq(q, 1, i - 1) \o SubSeq(q, i + 1, Len(q))

\* JSON.parse throws on the segment
Malformed(segment) ==
    /\ ~StartsWith(segment, 1, "~h~")
    /\ (IF StartsWith(segment, 1, "~j~") THEN SubSeq(segment, 4, Len(segment))
        ELSE segment) \notin JsonTexts

\* C19: a chunk decodes to one payload per segment; a segment that is not
\* JSON decodes to an event with data {}, and the other segments decode to
\* what the chunk without that segment decodes to.
C19_MalformedIsolated ==
    message # "" =>
        LET segments == Tail(Split(message))
        IN  /\ Len(payloads) = Len(segments)
            /\ \A i \in 1..Len(segments) :
                  Malformed(segments[i]) =>
                      /\ payloads[i] = [type |-> "event", data |-> "{}"]
                      /\ parseMessage(Encode(Remove(segments, i)))
                            = Remove(payloads, i)

C19_Witness ==
    /\ message # ""
    /\ LET segments == Tail(Split(message))
       IN  \E i \in 1..(Len(segments) - 1) :
              /\ Malformed(segments[i])
              /\ payloads[i + 1].type \in {"ping", "session"}
              /\ i > 1 => payloads[i - 1].data # "{}"
              /\ Len(segments) = 3 => i = 2

Replies(k) ==
    {i \in 1..Len(trace) : trace[i].kind = "reply" /\ trace[i].k = k}

\* C20: once the listener has ended, every heartbeat frame received has been
\* answered by exactly one reply, its own envelope, sent before anything
\* was done for a later frame, and no handler was invoked for it.
C20_HeartbeatEchoed ==
    (pos = 0 \/ crashed) =>
        \A k \in 1..Len(frames) :
            StartsWith(frames[k], 1, "~h~") =>
                /\ Cardinality(Replies(k)) = 1
                /\ \A i \in Replies(k) :
                      /\ trace[i].data = Envelope(frames[k])
                      /\ \A j \in 1..Len(trace) :
                            (j < i => trace[j].k < k) /\ (j > i => trace[j].k > k)

\* the loop is about to handle a session frame
SessionStep ==
    /\ pos # 0
    /\ ~iteration.active
    /\ payloads[LoopOrder(Len(payloads))[pos]].type = "session"

\* no session frame was handled before the one the loop is at
FirstSession ==
    \A j \in 1..(Arrival(LoopOrder(Len(payloads))[pos]) - 1) :
        ParseSegment(frames[j]).type # "session"

\* the step transmits one set_auth_token command that carries t
SendsAuth(t) ==
    /\ Len(wire') = Len(wire) + 1
    /\ SubSeq(wire', 1, Len(wire)) = wire
    /\ wire'[Len(wire')].name = "set_auth_token"
    /\ wire'[Len(wire')].token = t

\* connect is fulfilled only by the first session frame, and by it
\* whenever connect is still pending
FulfilledByFirst ==
    /\ connectPromise # "fulfilled" /\ connectPromise' = "fulfilled"
          => SessionStep /\ FirstSession
    /\ SessionStep /\ FirstSession /\ connectPromise = "pending"
          => connectPromise' = "fulfilled"

\* C21 as stated: every session frame makes the manager send set_auth_token
\* with the current token and become connected, and connect is fulfilled
\* by the first session frame only, never before one.
C21_Original ==
    [][/\ SessionStep => SendsAuth(token) /\ connected'
       /\ FulfilledByFirst]_vars

\* C21 amended: every session frame makes the manager connected; it sends
\* set_auth_token with the current token when the socket is open and
\* nothing when the socket is closing after close(); connect is fulfilled
\* by the first session frame only, never before one.
C21_SessionAuthenticates ==
    [][/\ SessionStep =>
             /\ connected'
             /\ IF readyState = "OPEN" THEN SendsAuth(token) ELSE wire' = wire
       /\ FulfilledByFirst]_vars

\* a session frame was answered with the looked-up token, close() was
\* called, and a later session frame found the socket closing
C21_Witness ==
    /\ pos = 0
    /\ Len(frames) = 2
    /\ readyState = "CLOSING"
    /\ connected
    /\ connectPromise = "fulfilled"
    /\ Len(wire) = 1
    /\ wire[1].name = "set_auth_token"
    /\ wire[1].token = "auth_token"

\* the step sets a reconnect timer
Scheduled == Len(reconnectTimers') = Len(reconnectTimers) + 1

NewDelay == reconnectTimers'[Len(reconnectTimers')]

\* min(5000 * 1.5^k, 60000) in delay units; 5000 * 1.5^8 is past the cap
\* already, so the exponent need not grow further
Expected(k) ==
    LET e == Min(k, 8)
    IN  Min((5000 * DelayUnit * 3^e) \div 2^e, 60000 * DelayUnit)

\* C22: the delay set at the k-th consecutive close without an open in
\* between (k from 0) is min(5000 * 1.5^k, 60000) ms, that is 5000, 7500,
\* 11250, 16875, ...; it never exceeds 60000 ms and never falls below the
\* delay of the close before it.
C22_BackoffDelay ==
    [][Scheduled =>
          /\ NewDelay = Expected(failed)
          /\ NewDelay <= 60000 * DelayUnit
          /\ failed = 0 => NewDelay = 5000 * DelayUnit
          /\ failed = 1 => NewDelay = 7500 * DelayUnit
          /\ failed = 2 => NewDelay = 11250 * DelayUnit
          /\ failed = 3 => NewDelay = 16875 * DelayUnit
          /\ failed > 0 => NewDelay >= Expected(failed - 1)]_vars

\* the eighth close in a row has set the timer to the cap
C22_Witness ==
    /\ failed = 8
    /\ reconnectAttempts = 8
    /\ reconnectTimers = <<60000 * DelayUnit>>

\* C23: every successful open sets reconnectAttempts to 0, so the close of
\* a socket that had opened sets the timer to 5000 ms.
C23_OpenResets ==
    [][/\ readyState = "CONNECTING" /\ readyState' = "OPEN"
             => reconnectAttempts' = 0
       /\ Scheduled /\ readyState \in {"OPEN", "CLOSING"}
             => NewDelay = 5000 * DelayUnit]_vars

\* the third socket was created by a timer that followed a close, opened,
\* and closed in its turn: its close set the timer to 5000 ms
C23_Witness ==
    /\ created = 3
    /\ readyState = "CLOSED"
    /\ failed = 1
    /\ reconnectAttempts = 1
    /\ reconnectTimers = <<5000 * DelayUnit>>

\* the step is the 'close' event of the socket
ClosesNow == readyState # "CLOSED" /\ readyState' = "CLOSED"

\* C24: the close of a socket after close() was called sets no reconnect
\* timer, with autoReconnect on or off; with autoReconnect off no close
\* sets one.
C24_NoReconnectAfterClose ==
    [][ClosesNow /\ (manuallyClosed \/ ~autoReconnect)
          => reconnectTimers' = reconnectTimers]_vars

\* with autoReconnect on, close() was called on the live socket, the socket
\* has closed, and no timer is set
C24_Witness ==
    /\ autoReconnect
    /\ manuallyClosed
    /\ readyState = "CLOSED"
    /\ [on |-> created, resolved |-> TRUE] \in closeCalls
    /\ reconnectTimers = <<>>

\* C25: once close() has been called no further socket is created, also
\* when close() is called while the socket is down and a reconnect timer
\* is pending.
C25_ClosedTerminal ==
    [][manuallyClosed => created' = created]_vars

\* C26: every call of close() resolves: one that has not resolved yet
\* waits for the 'close' event of a socket that is still to emit it. A
\* socket that has closed emits no further 'close'.
C26_CloseResolves ==
    \A c \in closeCalls :
        c.resolved \/ (c.on = created /\ readyState \in Live)

\* the i-th call of send by the application is on the wire
Transmitted(i) ==
    \E j \in 1..Len(wire) :
        wire[j].name = "quote_add_symbols" /\ wire[j].n = i

\* C27: a send called while the socket is not open transmits nothing and
\* is not kept: its command is not on the wire then, nor at any later
\* time, reconnection included; one called on an open socket is.
C27_ClosedSendDropped ==
    \A i \in 1..Len(sendLog) : Transmitted(i) <=> sendLog[i]

\* a send was called while the socket was down; since then the manager
\* has reconnected and the new session is established
C27_Witness ==
    /\ sendLog = <<FALSE>>
    /\ created = 2
    /\ readyState = "OPEN"
    /\ connected
    /\ pos = 0
    /\ Len(wire) = 2

\* the 30 s timer of connect fires
TimerStep == connectTimer = "armed" /\ connectTimer' = "fired"

\* no session frame has arrived
NoSessionYet ==
    \A j \in 1..Len(frames) : ParseSegment(frames[j]).type # "session"

LookupReturns == lookups' = lookups - 1

\* C29: when a session id is given and getAuthToken fails, by an error of
\* the request or for want of a match, connect is not rejected by that:
\* the token is the sentinel 'unauthorized_user_token', the socket is
\* created all the same, and the set_auth_token sent on the session frame
\* of that socket carries the sentinel.
C29_LookupFailureTolerated ==
    [][/\ LookupReturns /\ lookup' \in {"nomatch", "error"} =>
             /\ token' = "unauthorized_user_token"
             /\ created' = created + 1
             /\ readyState' = "CONNECTING"
             /\ connectPromise' = connectPromise
       /\ SessionStep /\ readyState = "OPEN"
             /\ lookup \in {"nomatch", "error"}
             => SendsAuth("unauthorized_user_token")]_vars

\* the request of getAuthToken failed, the socket opened, and its session
\* frame was answered with the sentinel and fulfilled connect
C29_Witness ==
    /\ sessionId
    /\ lookup = "error"
    /\ connectPromise = "fulfilled"
    /\ connected
    /\ Len(wire) = 1
    /\ wire[1].name = "set_auth_token"
    /\ wire[1].token = "unauthorized_user_token"

\* handshakes in flight: the socket while it connects or waits for its
\* session frame, sockets replaced before they closed, calls of
\* initConnection that wait for the token, and reconnect timers
InFlight ==
    (IF readyState = "CONNECTING" \/ (readyState = "OPEN" /\ ~connected)
     THEN 1 ELSE 0)
    + orphans + lookups + Len(reconnectTimers)

\* C30: at most one handshake is in flight: the sockets that are opening
\* or wait for a session frame and the pending reconnect timers are at most
\* one in all, whatever errors, closes, reconnections and calls of close()
\* have happened.
C30_OneHandshake == InFlight <= 1

\* after two sockets have closed, the third has opened and waits for its
\* session frame; it is the only handshake
C30_Witness ==
    /\ created = 3
    /\ readyState = "OPEN"
    /\ ~connected
    /\ reconnectTimers = <<>>
    /\ InFlight = 1

\* C31: the 120 s timer of one call removes the handler of that call only
\* and rejects that call only: what the other calls own, the other
\* subscribers, the connection and the wire stay as they were.
C31_TimeoutIsolated ==
    [][\A f \in Fetches :
          (timeout[f] = "armed" /\ timeout'[f] = "fired") =>
              /\ \A g \in Fetches \ {f} : FetchState(g)' = FetchState(g)
              /\ subscribers' = SelectSeq(subscribers, LAMBDA g : g # f)
              /\ promise'[f] = "rejected"
              /\ readyState' = readyState
              /\ connVars' = connVars
              /\ wire' = wire]_vars

\* the timer of the first call has fired while the second call, which
\* holds a bar, is pending and subscribed
C31_Witness ==
    /\ timeout[1] = "fired"
    /\ promise[1] = "rejected"
    /\ promise[2] = "pending"
    /\ subscribers = <<2>>
    /\ Len(rawCandles[2]) = 1

\* C32: after a close and a reconnection the registry is what it was:
\* when the dispatch of an event that arrived on a reconnected socket is
\* over, every handler that subscribed on the first socket and has not
\* unsubscribed has been invoked with it.
C32_RegistrySurvives ==
    (created >= 2 /\ iteration.k # 0 /\ (~iteration.active \/ crashed)) =>
        \A h \in iteration.atStart : Calls(h, iteration.k) # {}

\* the handler of call f handles a completion event in this step
Completes(f) == Len(lens'[f]) = Len(lens[f]) + 1

\* the criteria of C33 on the deduplicated accumulator rc: from is set and
\* the oldest bar is later, or else amount is set and rc is shorter
MoreWanted(rc, a) ==
    LET byDate == Truthy(a.from) /\ Len(rc) > 0 /\ rc[1].t > a.from
    IN  byDate \/ (~byDate /\ Truthy(a.amount) /\ Len(rc) < a.amount)

\* the step puts one request for 10000 more bars of call f on the wire
RequestsMore(f) ==
    /\ Len(wire') = Len(wire) + 1
    /\ wire'[Len(wire')] = [name |-> "request_more_data", sess |-> f, n |-> 10000]

\* C33: a completion event handled with the stall counter below 3 sends a
\* request for 10000 more bars if and only if from is set and the oldest
\* bar held is later than from, or that does not hold and amount is set and
\* fewer than amount bars are held; otherwise the call resolves at that
\* event.
C33_NeedMoreRule ==
    [][\A f \in Fetches :
          (Completes(f) /\ stallCount'[f] < 3) =>
              /\ RequestsMore(f) <=> MoreWanted(rawCandles'[f], args[f])
              /\ ~MoreWanted(rawCandles'[f], args[f])
                    => (wire' = wire /\ promise'[f] = "fulfilled")]_vars

\* the completion events at the end of l that each found the length of the
\* one before
RECURSIVE Trailing(_)
Trailing(l) ==
    IF Len(l) >= 2 /\ l[Len(l)] = l[Len(l) - 1]
    THEN 1 + Trailing(SubSeq(l, 1, Len(l) - 1))
    ELSE 0

\* the completion events in l that found the length of the one before
NoGrowth(l) == Cardinality({i \in 2..Len(l) : l[i] = l[i - 1]})

\* C34: each completion event adds one to the stall counter when it finds
\* the length the previous completion event recorded and sets it to 0
\* otherwise: the counter is the number of completion events without growth
\* since the last one with growth, and reaches 3 only after three of them
\* in a row.
C34_StallCounter ==
    \A f \in Fetches :
        /\ stallCount[f] = Trailing(lens[f])
        /\ stallCount[f] >= 3 => ThreeUnchanged(lens[f])

\* three completion events without growth, with one that found growth
\* among them, and the call is still pending below the cutoff
C34_Witness ==
    \E f \in Fetches :
        /\ promise[f] = "pending"
        /\ NoGrowth(lens[f]) >= 3
        /\ stallCount[f] = 1
        /\ ~crashed

\* the commands of call f on the wire
SentBy(f) == SelectSeq(wire, LAMBDA c : c.sess = f)

\* call f has resolved if and only if its handler finalized, has failed if
\* and only if its timer fired, and not both
OneOutcome(f) ==
    /\ promise[f] = "fulfilled" <=> resolved[f]
    /\ promise[f] = "rejected" <=> timeout[f] = "fired"
    /\ ~(resolved[f] /\ timeout[f] = "fired")

\* C35: a call is settled once: it never both resolves and fails with the
\* timeout, however completion events and the 120 s timer interleave, and
\* a settled call changes nothing it owns and sends no command.
C35_SettledOnce ==
    [][\A f \in Fetches :
          /\ OneOutcome(f)'
          /\ promise[f] \in {"fulfilled", "rejected"}
                => /\ FetchState(f)' = FetchState(f)
                   /\ SentBy(f)' = SentBy(f)]_vars

\* the first call failed by its timer, the second resolved at its second
\* completion event or later, its timer cleared
C35_Witness ==
    /\ promise[1] = "rejected"
    /\ timeout[1] = "fired"
    /\ ~resolved[1]
    /\ promise[2] = "fulfilled"
    /\ timeout[2] = "cleared"
    /\ Len(lens[2]) >= 2

\* C36: a request for more data is sent only in the step that handles a
\* series_completed or symbol_error event while the call is pending, one
\* per event; a push or an event of another name sends nothing; so the
\* requests of a call never outnumber the completion events it has handled.
C36_RequestPerCompletion ==
    [][/\ \A f \in Fetches :
             /\ MoreSent(f)' # MoreSent(f) =>
                   /\ MoreSent(f)' = MoreSent(f) + 1
                   /\ Completes(f)
                   /\ promise[f] = "pending"
                   /\ \E e \in AllEvents :
                         /\ e.name \in {"series_completed", "symbol_error"}
                         /\ Dispatch(e)
             /\ MoreSent(f)' <= Len(lens'[f])
       /\ \A e \in AllEvents :
             (Dispatch(e) /\ e.name \notin {"series_completed", "symbol_error"})
                => wire' = wire]_vars

\* pushes, an event of another name and three completion events were
\* handled; two of the completion events were answered with a request, the
\* third resolved the call
C36_Witness ==
    /\ hard[1]
    /\ Len(rawCandles[1]) >= 1
    /\ Len(lens[1]) = 3
    /\ MoreSent(1) = 2
    /\ promise[1] = "fulfilled"

\* getCandles is called as call f in this step
Called(f) == promise[f] = "none" /\ promise'[f] = "pending"

\* C37: the call registers its handler in the step that sends its first
\* commands, and with the socket open these are chart_create_session,
\* resolve_symbol and create_series in that order, all with one session
\* identifier that no earlier command carried; so no command of a call is
\* on the wire unless its handler was registered.
C37_SetupOrder ==
    [][\A f \in Fetches :
          /\ Called(f) =>
                /\ subscribers' = Append(subscribers, f)
                /\ SentBy(f) = <<>>
                /\ Len(wire') = Len(wire) + 3
                /\ SubSeq(wire', 1, Len(wire)) = wire
                /\ wire'[Len(wire) + 1].name = "chart_create_session"
                /\ wire'[Len(wire) + 2].name = "resolve_symbol"
                /\ wire'[Len(wire) + 3].name = "create_series"
                /\ \A i \in 1..3 : wire'[Len(wire) + i].sess = f
          /\ promise'[f] = "none" => SentBy(f)' = <<>>]_vars

\* the second call was set up while the first was in flight and had
\* asked for more data
C37_Witness ==
    /\ promise[1] = "pending"
    /\ MoreSent(1) = 1
    /\ promise[2] = "pending"
    /\ subscribers = <<1, 2>>
    /\ Len(SentBy(2)) = 3
    /\ wire[Len(wire)].name = "create_series"

\* the step transmits a command a caller passed to send
CallerTransmits ==
    /\ Len(wire') = Len(wire) + 1
    /\ wire'[Len(wire')].name # "set_auth_token"

\* C38: on every socket set_auth_token is the first command transmitted:
\* a command of a caller reaches the wire only when the session frame of the
\* current socket has been answered, that is when connected is set.
C38_AuthFirst ==
    [][CallerTransmits => connected]_vars

\* connect has failed, by its timer or by an error of the socket
ConnectFailed == connectPromise \in {"timeout", "error"}

\* initConnection starts in this step
Attempts == created' = created + 1 \/ lookups' = lookups + 1

\* C39: with autoReconnect on and connect failed without a handle, every
\* close of a socket still sets a reconnect timer, a timer goes away only
\* by starting initConnection, and a pending timer does fire: the attempts
\* go on (here until MaxAttempts sockets were created).
C39_ReconnectsGoOn ==
    /\ [][/\ (ConnectFailed /\ autoReconnect /\ ClosesNow) => Scheduled
          /\ Len(reconnectTimers') < Len(reconnectTimers) => Attempts]_vars
    /\ (ConnectFailed /\ autoReconnect /\ reconnectTimers # <<>>
           /\ created + lookups < MaxAttempts)
          ~> (reconnectTimers = <<>>)

\* connect failed by an error of the first socket and the 30 s went by;
\* the fourth socket has closed and the next attempt is scheduled
C39_Witness ==
    /\ connectPromise = "error"
    /\ connectTimer = "fired"
    /\ autoReconnect
    /\ created = 4
    /\ readyState = "CLOSED"
    /\ reconnectTimers # <<>>

Settled(f) == promise[f] \in {"fulfilled", "rejected"}

\* the last call getCandlesMultiple made for symbol n
LastCall(n) ==
    CHOOSE f \in 1..Len(multiple.symbols) :
        /\ multiple.symbols[f] = n
        /\ \A g \in (f + 1)..Len(multiple.symbols) : multiple.symbols[g] # n

\* the map getCandlesMultiple returns has an entry for every symbol asked
\* for and for no other: the series of its call, or no bar if that failed
ResultsComplete ==
    /\ \A f \in 1..Len(multiple.symbols) : Settled(f)
    /\ \A n \in Symbols :
          /\ multiple.results[n].has <=> n \in Range(multiple.symbols)
          /\ multiple.results[n].has =>
                multiple.results[n].candles =
                    IF promise[LastCall(n)] = "fulfilled"
                    THEN finalCandles[LastCall(n)] ELSE <<>>

\* C40: getCandlesMultiple has at most one call of getCandles in flight and
\* makes the call for a symbol only when the calls before it have settled;
\* a call that failed is followed by the call for the next symbol; the map
\* returned holds, for every symbol asked for, the series fetched or an
\* empty series when its call failed.
C40_OneAfterAnother ==
    [][/\ Cardinality({f \in Fetches : promise'[f] = "pending"}) <= 1
       /\ \A f \in Fetches :
             Called(f) => \A g \in 1..(f - 1) : Settled(g)
       /\ (/\ multiple.state = "running"
           /\ multiple' # multiple
           /\ promise[multiple.at] = "rejected"
           /\ multiple.at < Len(multiple.symbols))
             => Called(multiple.at + 1)
       /\ multiple'.state = "returned" => ResultsComplete']_vars

\* the call for the first symbol failed by its timer, the call for the
\* second was made all the same and fetched a bar; the map has both
C40_Witness ==
    /\ multiple.state = "returned"
    /\ multiple.symbols = <<"A", "B">>
    /\ promise[1] = "rejected"
    /\ multiple.results["A"] = [has |-> TRUE, candles |-> <<>>]
    /\ promise[2] = "fulfilled"
    /\ multiple.results["B"].has
    /\ Len(multiple.results["B"].candles) = 1

TypeOK ==
    /\ \A f \in Fetches : promise[f] \in {"none", "pending", "fulfilled", "rejected"}

====
